---- MODULE Spec2Model ----
(***************************************************************************)
(* Model of the configuration loader of zgame555/config: a Config handle   *)
(* (env.go) that loads one .env / JSON / YAML file into the process        *)
(* environment and can reload it or switch to another file.                *)
(*                                                                         *)
(* Strings are sequences of one-character strings, so that key             *)
(* transformations (ToUpper, ReplaceAll), trimming, splitting and quote    *)
(* stripping are computed the way the code computes them.                  *)
(***************************************************************************)
EXTENDS Integers, Sequences, FiniteSets, TLC

(***************************************************************************)
(* Bounds of the model.                                                    *)
(***************************************************************************)
\* number of times the environment rewrites, deletes or chmods a file
MaxWrites == 2

(***************************************************************************)
(* strings package                                                         *)
(***************************************************************************)
LowerLetters == <<"a","b","c","d","e","f","g","h","i","j","k","l","m",
                  "n","o","p","q","r","s","t","u","v","w","x","y","z">>

UpperLetters == <<"A","B","C","D","E","F","G","H","I","J","K","L","M",
                  "N","O","P","Q","R","S","T","U","V","W","X","Y","Z">>

ToUpperChar(c) ==
    IF \E i \in 1..26 : LowerLetters[i] = c
    THEN UpperLetters[CHOOSE i \in 1..26 : LowerLetters[i] = c]
    ELSE c

ToLowerChar(c) ==
    IF \E i \in 1..26 : UpperLetters[i] = c
    THEN LowerLetters[CHOOSE i \in 1..26 : UpperLetters[i] = c]
    ELSE c

ToUpper(s) == [i \in 1..Len(s) |-> ToUpperChar(s[i])]

ToLower(s) == [i \in 1..Len(s) |-> ToLowerChar(s[i])]

\* strings.ReplaceAll for one-character old and new
ReplaceAll(s, old, new) == [i \in 1..Len(s) |-> IF s[i] = old THEN new ELSE s[i]]

IsSpace(c) == c \in {" ", "\t", "\r"}

\* strings.TrimSpace
TrimSpace(s) ==
    IF \A i \in 1..Len(s) : IsSpace(s[i])
    THEN << >>
    ELSE LET first == CHOOSE i \in 1..Len(s) :
                          /\ ~IsSpace(s[i])
                          /\ \A j \in 1..(i-1) : IsSpace(s[j])
             last  == CHOOSE i \in 1..Len(s) :
                          /\ ~IsSpace(s[i])
                          /\ \A j \in (i+1)..Len(s) : IsSpace(s[j])
         IN  SubSeq(s, first, last)

\* strings.HasPrefix for a one-character prefix
HasPrefix(s, c) == Len(s) >= 1 /\ s[1] = c

\* strings.SplitN had it cut at the last separator
SplitN2_LastSep(s, sep) ==
    IF \E i \in 1..Len(s) : s[i] = sep
    THEN LET at == CHOOSE i \in 1..Len(s) :
                       /\ s[i] = sep
                       /\ \A j \in (i+1)..Len(s) : s[j] # sep
         IN  << SubSeq(s, 1, at - 1), SubSeq(s, at + 1, Len(s)) >>
    ELSE << s >>

\* strings.SplitN(s, sep, 2) for a one-character separator
SplitN2(s, sep) ==
    IF \E i \in 1..Len(s) : s[i] = sep
    THEN LET at == CHOOSE i \in 1..Len(s) :
                       /\ s[i] = sep
                       /\ \A j \in 1..(i-1) : s[j] # sep
         IN  << SubSeq(s, 1, at - 1), SubSeq(s, at + 1, Len(s)) >>
    ELSE << s >>

\* strings.Join(elems, ",")
RECURSIVE Join(_, _)
Join(elems, sep) ==
    IF Len(elems) = 0 THEN << >>
    ELSE IF Len(elems) = 1 THEN elems[1]
    ELSE elems[1] \o << sep >> \o Join(Tail(elems), sep)

\* filepath.Ext: the suffix beginning at the final dot of the final element
Ext(path) ==
    IF \E i \in 1..Len(path) :
           /\ path[i] = "."
           /\ \A j \in (i+1)..Len(path) : path[j] \notin {".", "/"}
    THEN LET at == CHOOSE i \in 1..Len(path) :
                       /\ path[i] = "."
                       /\ \A j \in (i+1)..Len(path) : path[j] \notin {".", "/"}
         IN  SubSeq(path, at, Len(path))
    ELSE << >>

(***************************************************************************)
(* Format detection                                                        *)
(***************************************************************************)
FormatEnv == 0
FormatJSON == 1
FormatYAML == 2

\* detectFormat had it compared the extension as written
detectFormat_CaseSensitive(filePath) ==
    LET ext == Ext(filePath)
    IN  IF ext = <<".","j","s","o","n">> THEN FormatJSON
        ELSE IF ext \in { <<".","y","m","l">>, <<".","y","a","m","l">> } THEN FormatYAML
        ELSE FormatEnv

\* detectFormat
detectFormat(filePath) ==
    LET ext == ToLower(Ext(filePath))
    IN  IF ext = <<".","j","s","o","n">> THEN FormatJSON
        ELSE IF ext \in { <<".","y","m","l">>, <<".","y","a","m","l">> } THEN FormatYAML
        ELSE FormatEnv

(***************************************************************************)
(* The process environment (os.Setenv / os.Unsetenv): a function from the  *)
(* names that are set to their values.                                     *)
(***************************************************************************)
EmptyMap == << >>

\* m with k bound to v
Put(m, k, v) == [x \in (DOMAIN m) \cup {k} |-> IF x = k THEN v ELSE m[x]]

\* m without the names in ks
Without(m, ks) == [x \in (DOMAIN m) \ ks |-> m[x]]

\* os.Setenv had it left a name that is already set alone
Setenv_KeepExisting(env, key, value) ==
    IF key = << >> \/ key \in DOMAIN env THEN env ELSE Put(env, key, value)

\* os.Setenv: an empty name is rejected (EINVAL) and the error is dropped
Setenv(env, key, value) ==
    IF key = << >> THEN env ELSE Put(env, key, value)

\* the name under which setEnvironmentVariables / clearEnvironmentVariables
\* address a config key
envKey(key) == ToUpper(ReplaceAll(key, ".", "_"))

(***************************************************************************)
(* Value trees: what json.Unmarshal / yaml.Unmarshal hand to flattenConfig. *)
(* A mapping is a function from keys to nodes; a node is one record shape   *)
(* with a tag t: "str" (s), "bool" (b), "float" (n, a float64 holding the   *)
(* integer n, as encoding/json decodes every number), "int" (n, as yaml.v3  *)
(* decodes an integer), "arr" (items), "obj" (kids).                        *)
(***************************************************************************)
Node(t, s, b, n, items, kids) ==
    [t |-> t, s |-> s, b |-> b, n |-> n, items |-> items, kids |-> kids]

StrNode(s)    == Node("str", s, FALSE, 0, << >>, EmptyMap)
BoolNode(b)   == Node("bool", << >>, b, 0, << >>, EmptyMap)
FloatNode(n)  == Node("float", << >>, FALSE, n, << >>, EmptyMap)
IntNode(n)    == Node("int", << >>, FALSE, n, << >>, EmptyMap)
ArrNode(xs)   == Node("arr", << >>, FALSE, 0, xs, EmptyMap)
ObjNode(kids) == Node("obj", << >>, FALSE, 0, << >>, kids)

Digits == <<"0","1","2","3","4","5","6","7","8","9">>

\* strconv.Itoa
RECURSIVE Itoa(_)
Itoa(n) ==
    IF n < 0 THEN << "-" >> \o Itoa(-n)
    ELSE IF n < 10 THEN << Digits[n + 1] >>
    ELSE Itoa(n \div 10) \o << Digits[(n % 10) + 1] >>

RECURSIVE StripZeros(_)
StripZeros(ds) ==
    IF Len(ds) > 1 /\ ds[Len(ds)] = "0" THEN StripZeros(SubSeq(ds, 1, Len(ds) - 1))
    ELSE ds

\* fmt's %v of a float64 holding the integer n: strconv's 'g' format with
\* the shortest precision, which switches to the exponent form from 1e+06
FormatFloat(n) ==
    IF n < 0 THEN << "-" >> \o
        (LET ds == Itoa(-n)
             exp == Len(ds) - 1
             mant == StripZeros(ds)
         IN  IF exp < 6 THEN ds
             ELSE << mant[1] >>
                  \o (IF Len(mant) > 1 THEN << "." >> \o Tail(mant) ELSE << >>)
                  \o << "e", "+" >>
                  \o (IF exp < 10 THEN << "0" >> ELSE << >>) \o Itoa(exp))
    ELSE LET ds == Itoa(n)
             exp == Len(ds) - 1
             mant == StripZeros(ds)
         IN  IF exp < 6 THEN ds
             ELSE << mant[1] >>
                  \o (IF Len(mant) > 1 THEN << "." >> \o Tail(mant) ELSE << >>)
                  \o << "e", "+" >>
                  \o (IF exp < 10 THEN << "0" >> ELSE << >>) \o Itoa(exp)

\* byte order of the characters the model's keys use
CharOrder == << " ", "\"", "#", "'", ",", "-", ".", "/" >> \o Digits
             \o << ":", "=" >> \o UpperLetters \o << "[", "]", "_" >> \o LowerLetters

CharRank(c) == CHOOSE i \in 1..Len(CharOrder) : CharOrder[i] = c

RECURSIVE StrLess(_, _)
StrLess(a, b) ==
    IF Len(b) = 0 THEN FALSE
    ELSE IF Len(a) = 0 THEN TRUE
    ELSE IF a[1] = b[1] THEN StrLess(Tail(a), Tail(b))
    ELSE CharRank(a[1]) < CharRank(b[1])

\* the keys of a set in increasing byte order (fmt prints maps key-sorted)
RECURSIVE SortedKeys(_)
SortedKeys(ks) ==
    IF ks = {} THEN << >>
    ELSE LET least == CHOOSE k \in ks : \A o \in ks \ {k} : StrLess(k, o)
         IN  << least >> \o SortedKeys(ks \ {least})

\* fmt.Sprintf("%v", value)
RECURSIVE Sprintf(_)
Sprintf(v) ==
    CASE v.t = "str"   -> v.s
      [] v.t = "bool"  -> IF v.b THEN <<"t","r","u","e">> ELSE <<"f","a","l","s","e">>
      [] v.t = "float" -> FormatFloat(v.n)
      [] v.t = "int"   -> Itoa(v.n)
      [] v.t = "arr"   -> << "[" >>
                          \o Join([i \in 1..Len(v.items) |-> Sprintf(v.items[i])], " ")
                          \o << "]" >>
      [] v.t = "obj"   -> LET ks == SortedKeys(DOMAIN v.kids)
                          IN  << "m", "a", "p", "[" >>
                              \o Join([i \in 1..Len(ks) |->
                                         ks[i] \o << ":" >> \o Sprintf(v.kids[ks[i]])], " ")
                              \o << "]" >>

\* the array case had it closed every element, the last included, with ","
joinItems_TrailingSep(items) ==
    Join([i \in 1..(Len(items) + 1) |->
            IF i <= Len(items) THEN Sprintf(items[i]) ELSE << >>], ",")

\* the array case of flattenConfig: strings.Join(strItems, ",") of the
\* elements' fmt.Sprintf("%v", item)
joinItems(items) ==
    Join([i \in 1..Len(items) |-> Sprintf(items[i])], ",")

\* The assignments result[...] = ... that flattenConfig performs, as the set
\* of <<fullKey, value>> pairs.  Go ranges over a map in an unspecified
\* order, so when two pairs share a fullKey either assignment can be last.
RECURSIVE flattenPairs(_, _)
flattenPairs(config, prefix) ==
    UNION { LET value   == config[key]
                fullKey == IF prefix # << >> THEN prefix \o << "." >> \o key ELSE key
            IN  CASE value.t = "obj" -> flattenPairs(value.kids, fullKey)
                  [] value.t = "arr" ->
                       { << fullKey, joinItems(value.items) >> }
                  [] OTHER -> { << fullKey, Sprintf(value) >> }
          : key \in DOMAIN config }

\* the maps a sequence of assignments of these pairs, in any order, can leave
MapsOf(pairs) ==
    LET keys == { p[1] : p \in pairs }
    IN  { m \in [keys -> { p[2] : p \in pairs }] :
            \A k \in keys : << k, m[k] >> \in pairs }

\* flattenConfig had it kept the top-level scalars and sequences only,
\* without descending into nested mappings
flattenConfig_TopLevelOnly(config, prefix) ==
    MapsOf({ << key, IF config[key].t = "arr" THEN joinItems(config[key].items)
                     ELSE Sprintf(config[key]) >>
             : key \in { k \in DOMAIN config : config[k].t # "obj" } })

\* flattenConfig: the results the build can produce
flattenConfig(config, prefix) == MapsOf(flattenPairs(config, prefix))

\* setEnvironmentVariables had it kept the values of names already set
setEnvironmentVariables_KeepExisting(config, env) ==
    LET pairs == { << envKey(key), config[key] >> : key \in DOMAIN config }
    IN  { [x \in (DOMAIN env) \cup ((DOMAIN m) \ { << >> }) |->
             IF x \in DOMAIN env THEN env[x] ELSE m[x]] : m \in MapsOf(pairs) }

\* setEnvironmentVariables: the environments the build can produce
setEnvironmentVariables(config, env) ==
    LET pairs == { << envKey(key), config[key] >> : key \in DOMAIN config }
    IN  { [x \in (DOMAIN env) \cup ((DOMAIN m) \ { << >> }) |->
             IF x \in DOMAIN m THEN m[x] ELSE env[x]] : m \in MapsOf(pairs) }

\* clearEnvironmentVariables
clearEnvironmentVariables(config, env) ==
    Without(env, { envKey(key) : key \in DOMAIN config })

(***************************************************************************)
(* Files.  A file is absent, present but unreadable ("noperm"), or holds   *)
(* data: for an env path the text lines the scanner yields (tooLong: the   *)
(* lines are followed by one that exceeds bufio.MaxScanTokenSize, at which *)
(* the scanner stops with ErrTooLong); for a JSON/YAML path the decoded    *)
(* value tree, or "garbage" when the decoder rejects the bytes.            *)
(***************************************************************************)
File(kind, lines, tooLong, tree) ==
    [kind |-> kind, lines |-> lines, tooLong |-> tooLong, tree |-> tree]

Absent      == File("absent", << >>, FALSE, EmptyMap)
NoPerm      == File("noperm", << >>, FALSE, EmptyMap)
Garbage     == File("garbage", << >>, FALSE, EmptyMap)
Text(lines) == File("text", lines, FALSE, EmptyMap)
Torn(lines) == File("text", lines, TRUE, EmptyMap)
Tree(tree)  == File("tree", << >>, FALSE, tree)

ErrNone  == "nil"
ErrOpen  == "failed to open env file"
ErrRead  == "failed to read config file"
ErrParse == "failed to parse config"
ErrScan  == "bufio.Scanner: token too long"

\* the quote removal had it accepted an opening and a closing quote of
\* different kinds
Unquote_AnyQuotes(value) ==
    IF Len(value) >= 2
    THEN IF value[1] \in { "\"", "'" } /\ value[Len(value)] \in { "\"", "'" }
         THEN SubSeq(value, 2, Len(value) - 1)
         ELSE value
    ELSE value

\* the quote removal of loadEnvFile
Unquote(value) ==
    IF Len(value) >= 2
    THEN IF \/ (value[1] = "\"" /\ value[Len(value)] = "\"")
            \/ (value[1] = "'" /\ value[Len(value)] = "'")
         THEN SubSeq(value, 2, Len(value) - 1)
         ELSE value
    ELSE value

\* the body of the scanner loop of loadEnvFile for the lines from i on:
\* acc.config is the local map, acc.env the process environment
RECURSIVE scanLines(_, _, _)
scanLines(lines, i, acc) ==
    IF i > Len(lines) THEN acc
    ELSE LET line  == TrimSpace(lines[i])
             parts == SplitN2(line, "=")
         IN  IF line = << >> \/ HasPrefix(line, "#") THEN scanLines(lines, i + 1, acc)
             ELSE IF Len(parts) # 2 THEN scanLines(lines, i + 1, acc)
             ELSE LET key   == TrimSpace(parts[1])
                      value == Unquote(TrimSpace(parts[2]))
                  IN  scanLines(lines, i + 1,
                                [config |-> Put(acc.config, key, value),
                                 env    |-> Setenv(acc.env, key, value)])

\* Config.loadEnvFile: the error returned, the handle's loadedConfig and the
\* process environment afterwards, and the names it has set (set)
loadEnvFile(file, loadedConfig, env) ==
    CASE file.kind = "absent" ->
           [err |-> ErrNone, loadedConfig |-> loadedConfig, env |-> env, set |-> {}]
      [] file.kind = "noperm" ->
           [err |-> ErrOpen, loadedConfig |-> loadedConfig, env |-> env, set |-> {}]
      [] OTHER ->
           LET acc == scanLines(file.lines, 1, [config |-> EmptyMap, env |-> env])
           IN  [err          |-> IF file.tooLong THEN ErrScan ELSE ErrNone,
                loadedConfig |-> acc.config,
                env          |-> acc.env,
                set          |-> (DOMAIN acc.config) \ { << >> }]

\* loadConfigFile had it reported a missing file like any other read error
loadConfigFile_AbsentIsError(file) ==
    CASE file.kind \in { "absent", "noperm" } -> { [err |-> ErrRead, config |-> EmptyMap] }
      [] file.kind = "garbage" -> { [err |-> ErrParse, config |-> EmptyMap] }
      [] OTHER -> { [err |-> ErrNone, config |-> cfg] : cfg \in flattenConfig(file.tree, << >>) }

\* loadConfigFile for a JSON/YAML path: the error and the results the build
\* can produce
loadConfigFile(file) ==
    CASE file.kind = "absent"  -> { [err |-> ErrNone, config |-> EmptyMap] }
      [] file.kind = "noperm"  -> { [err |-> ErrRead, config |-> EmptyMap] }
      [] file.kind = "garbage" -> { [err |-> ErrParse, config |-> EmptyMap] }
      [] OTHER -> { [err |-> ErrNone, config |-> cfg] : cfg \in flattenConfig(file.tree, << >>) }

\* Config.loadStructuredFile: the outcomes the build can produce
loadStructuredFile(file, loadedConfig, env) ==
    UNION { IF r.err # ErrNone
            THEN { [err |-> r.err, loadedConfig |-> loadedConfig, env |-> env, set |-> {}] }
            ELSE { [err |-> ErrNone, loadedConfig |-> r.config, env |-> e,
                    set |-> { envKey(key) : key \in DOMAIN r.config } \ { << >> }] :
                     e \in setEnvironmentVariables(r.config, env) }
          : r \in loadConfigFile(file) }

(***************************************************************************)
(* The files and contents the model explores.                              *)
(***************************************************************************)
EnvPath  == <<"a",".","e","n","v">>
JsonPath == <<"a",".","j","s","o","n">>
YamlPath == <<"a",".","y","m","l">>

Paths == { EnvPath, JsonPath, YamlPath }

\* K=1
EnvOne == Text(<< <<"K","=","1">> >>)
\* K=2
EnvTwo == Text(<< <<"K","=","2">> >>)
\* K=1 / J='2'
EnvPair == Text(<< <<"K","=","1">>, <<"J","=","'","2","'">> >>)
\* a comment, a blank line, a quoted value under a lower-case name, and a
\* line with an empty name: # c / (blank) / k = "1" / =x
EnvLower == Text(<< <<"#"," ","c">>, << >>, <<" ","k"," ","="," ","\"","1","\""," ">>,
                    <<"=","x">> >>)
\* K=1 followed by a line longer than the scanner's buffer
EnvTorn == Torn(<< <<"K","=","1">> >>)

EnvContents == { Absent, NoPerm, EnvOne, EnvTwo, EnvPair, EnvLower, EnvTorn }

\* {"k": "1"}
JsonOne == Tree(<<"k">> :> StrNode(<<"1">>))
\* {"k": "2", "a": {"b": true}}
JsonNested == Tree(<<"k">> :> StrNode(<<"2">>)
                   @@ <<"a">> :> ObjNode(<<"b">> :> BoolNode(TRUE)))
\* {"k": "1", "K": "2"}
JsonClash == Tree(<<"k">> :> StrNode(<<"1">>) @@ <<"K">> :> StrNode(<<"2">>))
\* {"j": ["x", "y"], "k": 5432}
JsonList == Tree(<<"j">> :> ArrNode(<< StrNode(<<"x">>), StrNode(<<"y">>) >>)
                 @@ <<"k">> :> FloatNode(5432))

JsonContents == { Absent, NoPerm, Garbage, JsonOne, JsonNested, JsonClash, JsonList }

\* k: 8080
YamlOne == Tree(<<"k">> :> IntNode(8080))

YamlContents == { Absent, Garbage, YamlOne }

Contents(path) ==
    CASE detectFormat(path) = FormatJSON -> JsonContents
      [] detectFormat(path) = FormatYAML -> YamlContents
      [] OTHER -> EnvContents

\* the environments the process can start with
AmbientEnvs == { EmptyMap, <<"K">> :> <<"0">> @@ <<"Z">> :> <<"0">> }

(***************************************************************************)
(* The package-level loaders                                               *)
(***************************************************************************)
\* LoadEnvFile(filePath): the error returned and the environment afterwards
LoadEnvFile(file, env) ==
    CASE file.kind = "absent" -> [err |-> ErrNone, env |-> env]
      [] file.kind = "noperm" -> [err |-> ErrOpen, env |-> env]
      [] OTHER ->
           [err |-> IF file.tooLong THEN ErrScan ELSE ErrNone,
            env |-> scanLines(file.lines, 1, [config |-> EmptyMap, env |-> env]).env]

ErrUnsupported == "unsupported config format"

\* LoadConfigFile(filePath): the outcomes the build can produce
LoadConfigFile(path, file, env) ==
    CASE detectFormat(path) = FormatEnv -> { LoadEnvFile(file, env) }
      [] detectFormat(path) \in { FormatJSON, FormatYAML } ->
           UNION { IF r.err # ErrNone
                   THEN { [err |-> r.err, env |-> env] }
                   ELSE { [err |-> ErrNone, env |-> e] :
                            e \in setEnvironmentVariables(r.config, env) }
                 : r \in loadConfigFile(file) }
      [] OTHER -> { [err |-> ErrUnsupported, env |-> env] }

(***************************************************************************)
(* State                                                                   *)
(***************************************************************************)
VARIABLES
    files,      \* the file system: path -> File
    env,        \* the process environment: name -> value
    c,          \* the Config handle: made (constructed), configFile, loaded,
                \* format, loadedConfig
    last,       \* the last call: op, its path argument, the error returned;
                \* history: wasLoaded (c.loaded when it began), file (the
                \* file it addressed)
    wrote,      \* history: the names this handle has ever set
    prev,       \* history: the names the handle's latest load set
    writes,     \* number of file changes so far
    hs,         \* two handles run side by side: per handle its Config
                \* fields, where its call stands (pc), the os.Setenv /
                \* os.Unsetenv calls still to make (todo), the map its env
                \* loader is filling (config), the calls begun (calls)
    mark        \* history: per name, the latest os.Setenv / os.Unsetenv
                \* call on it

vars == << files, env, c, last, wrote, prev, writes, hs, mark >>

NoPath == << >>

\* the load that Config.Load dispatches to when the handle is not loaded
runLoad(h, fs, e) ==
    LET rs == CASE h.format = FormatEnv ->
                     { loadEnvFile(fs[h.configFile], h.loadedConfig, e) }
                [] h.format \in { FormatJSON, FormatYAML } ->
                     loadStructuredFile(fs[h.configFile], h.loadedConfig, e)
                [] OTHER ->
                     { [err |-> ErrUnsupported, loadedConfig |-> h.loadedConfig,
                        env |-> e, set |-> {}] }
    IN  { [err |-> r.err,
           c   |-> [h EXCEPT !.loadedConfig = r.loadedConfig,
                             !.loaded = IF r.err = ErrNone THEN TRUE ELSE h.loaded],
           env |-> r.env,
           set |-> r.set,
           ran |-> TRUE] : r \in rs }

\* Config.Load had it not returned early on a loaded handle
Load_Always(h, fs, e) == runLoad(h, fs, e)

\* Config.Load on handle h: the outcomes the build can produce (ran: the
\* load was executed)
Load(h, fs, e) ==
    IF h.loaded
    THEN { [err |-> ErrNone, c |-> h, env |-> e, set |-> {}, ran |-> FALSE] }
    ELSE runLoad(h, fs, e)

\* the shared opening of Reload and SetFile: clear what was loaded
Clear(h, e) ==
    IF Cardinality(DOMAIN h.loadedConfig) > 0
    THEN [c   |-> [h EXCEPT !.loadedConfig = EmptyMap],
          env |-> clearEnvironmentVariables(h.loadedConfig, e)]
    ELSE [c |-> h, env |-> e]

Init ==
    /\ files = [p \in Paths |-> Absent]
    /\ env \in AmbientEnvs
    /\ c = [made |-> FALSE, configFile |-> NoPath, loaded |-> FALSE,
            format |-> FormatEnv, loadedConfig |-> EmptyMap]
    /\ last = [op |-> "none", path |-> NoPath, err |-> ErrNone,
               wasLoaded |-> FALSE, file |-> Absent]
    /\ wrote = {}
    /\ prev = {}
    /\ writes = 0
    /\ hs = << >>
    /\ mark = << >>

\* the environment creates, rewrites, deletes or protects a file
WriteFile(p, f) ==
    /\ writes < MaxWrites
    /\ files[p] # f
    /\ files' = [files EXCEPT ![p] = f]
    /\ writes' = writes + 1
    /\ UNCHANGED << env, c, last, wrote, prev, hs, mark >>

\* New had it only recorded the path and the format, leaving the load to
\* the first call of Load
New_Lazy(p) ==
    /\ ~c.made
    /\ c' = [made |-> TRUE, configFile |-> p, loaded |-> FALSE,
             format |-> detectFormat(p), loadedConfig |-> EmptyMap]
    /\ wrote' = {}
    /\ prev' = {}
    /\ last' = [op |-> "New", path |-> p, err |-> ErrNone,
                wasLoaded |-> FALSE, file |-> files[p]]
    /\ UNCHANGED << files, env, writes, hs, mark >>

\* New(configFile): construct and auto-load, dropping Load's error
New(p) ==
    /\ ~c.made
    /\ \E r \in Load([made |-> TRUE, configFile |-> p, loaded |-> FALSE,
                      format |-> detectFormat(p), loadedConfig |-> EmptyMap],
                     files, env) :
           /\ c' = r.c
           /\ env' = r.env
           /\ wrote' = r.set
           /\ prev' = r.set
           /\ last' = [op |-> "New", path |-> p, err |-> ErrNone,
                       wasLoaded |-> FALSE, file |-> files[p]]
    /\ UNCHANGED << files, writes, hs, mark >>

\* c.Load()
DoLoad ==
    /\ c.made
    /\ \E r \in Load(c, files, env) :
           /\ c' = r.c
           /\ env' = r.env
           /\ wrote' = wrote \cup r.set
           /\ prev' = IF r.ran THEN r.set ELSE prev
           /\ last' = [op |-> "Load", path |-> NoPath, err |-> r.err,
                       wasLoaded |-> c.loaded, file |-> files[c.configFile]]
    /\ UNCHANGED << files, writes, hs, mark >>

\* c.Reload()
Reload ==
    /\ c.made
    /\ LET cl == Clear(c, env)
       IN  \E r \in Load([cl.c EXCEPT !.loaded = FALSE], files, cl.env) :
               /\ c' = r.c
               /\ env' = r.env
               /\ wrote' = wrote \cup r.set
               /\ prev' = r.set
               /\ last' = [op |-> "Reload", path |-> NoPath, err |-> r.err,
                           wasLoaded |-> c.loaded, file |-> files[c.configFile]]
    /\ UNCHANGED << files, writes, hs, mark >>

\* c.SetFile(configFile)
SetFile(p) ==
    /\ c.made
    /\ LET cl == Clear(c, env)
       IN  \E r \in Load([cl.c EXCEPT !.configFile = p,
                                      !.format = detectFormat(p),
                                      !.loaded = FALSE], files, cl.env) :
               /\ c' = r.c
               /\ env' = r.env
               /\ wrote' = wrote \cup r.set
               /\ prev' = r.set
               /\ last' = [op |-> "SetFile", path |-> p, err |-> r.err,
                           wasLoaded |-> c.loaded, file |-> files[p]]
    /\ UNCHANGED << files, writes, hs, mark >>

\* one handle, no other writer of the environment
Next ==
    \/ \E p \in Paths : \E f \in Contents(p) : WriteFile(p, f)
    \/ \E p \in Paths : New(p)
    \/ DoLoad
    \/ Reload
    \/ \E p \in Paths : SetFile(p)

Spec == Init /\ [][Next]_vars

(***************************************************************************)
(* What a source defines.                                                  *)
(***************************************************************************)
\* the name under which a load of the given format sets a key
StoreName(format, key) == IF format = FormatEnv THEN key ELSE envKey(key)

\* the flat mappings a source of the given format can flatten to
FlatMappings(file, format) ==
    IF format = FormatEnv
    THEN IF file.kind = "text"
         THEN { scanLines(file.lines, 1, [config |-> EmptyMap, env |-> EmptyMap]).config }
         ELSE { EmptyMap }
    ELSE IF file.kind = "tree" THEN flattenConfig(file.tree, << >>) ELSE { EmptyMap }

\* the <<name, value>> pairs a source defines for the environment
SourcePairs(file, format) ==
    UNION { { << StoreName(format, k), m[k] >> : k \in DOMAIN m }
            : m \in FlatMappings(file, format) }

SourceNames(file, format) == { pr[1] : pr \in SourcePairs(file, format) }

\* the source can be loaded without error
Loadable(file) == file.kind \in { "absent", "tree" } \/ (file.kind = "text" /\ ~file.tooLong)

(***************************************************************************)
(* C1: first-write-wins on the first load of an env file                   *)
(***************************************************************************)
\* every name the environment holds with a value other than the one the env
\* source gives it keeps its value across the step
KeepsExisting(file) ==
    \A pr \in SourcePairs(file, FormatEnv) :
        (pr[1] \in DOMAIN env /\ env[pr[1]] # pr[2])
            => (pr[1] \in DOMAIN env' /\ env'[pr[1]] = env[pr[1]])

\* C1: when an unloaded env-format handle runs Load() (in New, or by a call
\* of Load), every name K the environment already holds with value V, and
\* that the env source defines with another value, still holds V afterwards.
C1_FirstWriteWins ==
    [][ /\ \A p \in Paths :
              (detectFormat(p) = FormatEnv /\ New(p)) => KeepsExisting(files[p])
        /\ (c.made /\ ~c.loaded /\ c.format = FormatEnv /\ DoLoad)
              => KeepsExisting(files[c.configFile]) ]_vars

(***************************************************************************)
(* C2: always-overwrite on structured load and on reload                   *)
(***************************************************************************)
\* after the step the environment holds, for every pair the source defines,
\* that value under that name
HoldsSource(file, format) ==
    \A pr \in SourcePairs(file, format) :
        pr[1] \in DOMAIN env' /\ env'[pr[1]] = pr[2]

\* after the step the environment holds, under every non-empty name the
\* source defines, a value the source defines for that name
HoldsSomeSource(file, format) ==
    \A pr \in SourcePairs(file, format) :
        pr[1] # << >> =>
            /\ pr[1] \in DOMAIN env'
            /\ << pr[1], env'[pr[1]] >> \in SourcePairs(file, format)

\* the steps C2 is about, with P(file, format) required after each: a
\* successful Load() of an unloaded JSON/YAML handle (in New or by a call of
\* Load), and a successful Reload() of a handle of any format
AfterOverwritingLoads(P(_, _)) ==
    /\ \A p \in Paths :
          (detectFormat(p) # FormatEnv /\ New(p) /\ c'.loaded)
              => P(files[p], detectFormat(p))
    /\ (c.made /\ ~c.loaded /\ c.format # FormatEnv /\ DoLoad /\ last'.err = ErrNone)
          => P(files[c.configFile], c.format)
    /\ (Reload /\ last'.err = ErrNone) => P(files[c.configFile], c.format)

C3_ReloadRemovesStale ==
    [][ (Reload /\ c.loaded) =>
            \A n \in prev :
                n \notin SourceNames(files[c.configFile], c.format)
                    => n \notin DOMAIN env' ]_vars

\* across the step only names set by the handle's previous load are removed,
\* and a name the handle never set and the new source does not define keeps
\* its presence and value
RemovesOnlyOwn(file, format) ==
    /\ \A n \in (DOMAIN env) \ (DOMAIN env') : n \in prev
    /\ \A n \in ((DOMAIN env) \cup (DOMAIN env')) \ (wrote \cup SourceNames(file, format)) :
           /\ n \in DOMAIN env
           /\ n \in DOMAIN env'
           /\ env'[n] = env[n]

\* C4: during Reload() and SetFile(p) the only names removed from the
\* environment are names this handle set in its previous load, and every
\* name the handle never set and the newly loaded source does not define has
\* the same presence and value after the call as before.
C4_UnapplyExactlyOwn ==
    [][ /\ Reload => RemovesOnlyOwn(files[c.configFile], c.format)
        /\ \A p \in Paths : SetFile(p) => RemovesOnlyOwn(files[p], detectFormat(p)) ]_vars

(***************************************************************************)
(* C5: the handle invariant                                                *)
(***************************************************************************)
\* C5: while the handle is loaded, the names it has set and that are still
\* in the environment are exactly the environment names of the keys of
\* loadedConfig, and each holds the value loadedConfig records for it.  (Read
\* in the claim's favour: the empty name, which the environment cannot hold,
\* is left out, and a name that two keys share may hold either's value.)
C5_HandleInvariant ==
    c.loaded =>
        LET names == { StoreName(c.format, k) : k \in DOMAIN c.loadedConfig } \ { << >> }
        IN  /\ wrote \cap (DOMAIN env) = names
            /\ \A n \in names :
                   /\ n \in DOMAIN env
                   /\ \E k \in DOMAIN c.loadedConfig :
                          StoreName(c.format, k) = n /\ env[n] = c.loadedConfig[k]

(***************************************************************************)
(* C6: Load() on a loaded handle                                           *)
(***************************************************************************)
\* C6: Load() on a handle whose loaded flag is true returns nil and changes
\* neither the environment nor any field of the handle, even when the file
\* has changed since the load.
C6_LoadIdempotent ==
    [][ (c.made /\ c.loaded /\ DoLoad) =>
            /\ last'.err = ErrNone
            /\ env' = env
            /\ c' = c ]_vars

\* Load() has returned on a loaded env-format handle whose file no longer
\* flattens to what the handle loaded
C6_Witness ==
    /\ last.op = "Load" /\ last.wasLoaded
    /\ c.loaded /\ c.format = FormatEnv
    /\ last.file.kind = "text"
    /\ c.loadedConfig \notin FlatMappings(last.file, FormatEnv)

(***************************************************************************)
(* C7: the outcome of Load() on an unloaded handle                         *)
(***************************************************************************)
\* C7: when Load() runs on an unloaded handle, a source that loads without
\* error leaves the handle loaded with loadedConfig equal to the flat mapping
\* of the source and nil returned; a source that is unreadable or malformed
\* leaves the handle unloaded and its error returned.
C7_LoadOutcome ==
    [][ (c.made /\ ~c.loaded /\ DoLoad) =>
            IF Loadable(files[c.configFile])
            THEN /\ last'.err = ErrNone
                 /\ c'.loaded
                 /\ c'.loadedConfig \in FlatMappings(files[c.configFile], c.format)
            ELSE /\ last'.err # ErrNone
                 /\ ~c'.loaded ]_vars

(***************************************************************************)
(* C8: a Reload() whose load fails                                         *)
(***************************************************************************)
\* C8: when the load that Reload() runs on a loaded handle fails, Reload()
\* returns the error and leaves the handle unloaded, loadedConfig empty and
\* none of the names set by the previous load in the environment.
C8_ReloadFailure ==
    [][ (Reload /\ c.loaded /\ ~Loadable(files[c.configFile])) =>
            /\ last'.err # ErrNone
            /\ ~c'.loaded
            /\ c'.loadedConfig = EmptyMap
            /\ prev \cap (DOMAIN env') = {} ]_vars

(***************************************************************************)
(* C9: SetFile                                                             *)
(***************************************************************************)
\* C9: after SetFile(p) configFile is p and format is detectFormat(p); the
\* names set from the old source and not defined by the source at p are gone
\* from the environment; and when the load succeeds the handle is loaded with
\* loadedConfig equal to the flat mapping of the source at p.
C9_SetFileSwitches ==
    [][ \A p \in Paths : SetFile(p) =>
            /\ c'.configFile = p
            /\ c'.format = detectFormat(p)
            /\ \A n \in prev :
                   n \notin SourceNames(files[p], detectFormat(p)) => n \notin DOMAIN env'
            /\ last'.err = ErrNone =>
                   /\ c'.loaded
                   /\ c'.loadedConfig \in FlatMappings(files[p], detectFormat(p)) ]_vars

(***************************************************************************)
(* C10: a missing file                                                     *)
(***************************************************************************)
\* the environment after the step holds nothing it did not hold before
NothingWritten ==
    /\ prev' = {}
    /\ \A n \in DOMAIN env' : n \in DOMAIN env /\ env'[n] = env[n]

MaxDepth == 2

\* the keys of the trees explored: a, b, a.b and the empty key
TreeKeys == { <<"a">>, <<"b">>, <<"a",".","b">>, << >> }

\* the leaves a JSON document decodes to
JsonLeaves ==
    { StrNode(<<"x">>), BoolNode(TRUE), BoolNode(FALSE),
      FloatNode(5432), FloatNode(1000000),
      ObjNode(EmptyMap),
      ArrNode(<< >>),
      ArrNode(<< StrNode(<<"x">>), StrNode(<<"y">>), StrNode(<<"z">>) >>),
      ArrNode(<< FloatNode(1), ArrNode(<< StrNode(<<"x">>), BoolNode(TRUE) >>),
                 ObjNode(<<"b">> :> StrNode(<<"y">>)) >>) }

\* the leaves a YAML document decodes to
YamlLeaves == { StrNode(<<"x">>), BoolNode(FALSE), IntNode(8080), IntNode(1000000) }

\* a leaf, or up to d single-key mappings around a leaf
RECURSIVE Chains(_, _)
Chains(leaves, d) ==
    IF d = 0 THEN leaves
    ELSE leaves \cup { ObjNode(k :> v) : k \in TreeKeys, v \in Chains(leaves, d - 1) }

\* the leaves of the first entry of a document with two entries
PairLeaves ==
    { StrNode(<<"x">>),
      ArrNode(<< StrNode(<<"x">>), StrNode(<<"y">>), StrNode(<<"z">>) >>) }

\* JSON documents: one entry, or two entries of which the second ends in "y"
JsonTrees ==
    { k :> v : k \in TreeKeys, v \in Chains(JsonLeaves, MaxDepth - 1) }
    \cup
    UNION { UNION { { k1 :> v1 @@ k2 :> v2 :
                          v1 \in Chains(PairLeaves, MaxDepth - 1),
                          v2 \in Chains({ StrNode(<<"y">>) }, MaxDepth - 1) }
                    : k2 \in TreeKeys \ { k1 } }
            : k1 \in TreeKeys }

YamlTrees == { k :> v : k \in TreeKeys, v \in Chains(YamlLeaves, MaxDepth - 1) }

\* one JSON or YAML document on disk, an empty environment, no handle yet
InitFlatten ==
    /\ \/ \E t \in JsonTrees :
              files = [p \in Paths |-> IF p = JsonPath THEN Tree(t) ELSE Absent]
       \/ \E t \in YamlTrees :
              files = [p \in Paths |-> IF p = YamlPath THEN Tree(t) ELSE Absent]
    /\ env = EmptyMap
    /\ c = [made |-> FALSE, configFile |-> NoPath, loaded |-> FALSE,
            format |-> FormatEnv, loadedConfig |-> EmptyMap]
    /\ last = [op |-> "none", path |-> NoPath, err |-> ErrNone,
               wasLoaded |-> FALSE, file |-> Absent]
    /\ wrote = {}
    /\ prev = {}
    /\ writes = 0
    /\ hs = << >>
    /\ mark = << >>

NextFlatten ==
    \/ New(JsonPath)
    \/ New(YamlPath)

SpecFlatten == InitFlatten /\ [][NextFlatten]_vars

(***************************************************************************)
(* C11: the names and values a JSON/YAML load writes                       *)
(***************************************************************************)
\* the leaves of a tree: <<the keys leading to it, the node>> for every
\* node that is not a mapping
RECURSIVE LeavesOf(_, _)
LeavesOf(config, path) ==
    UNION { IF config[k].t = "obj"
            THEN LeavesOf(config[k].kids, Append(path, k))
            ELSE { << Append(path, k), config[k] >> }
          : k \in DOMAIN config }

\* the keys of a tree, at every level
RECURSIVE KeysOf(_)
KeysOf(config) ==
    (DOMAIN config)
    \cup UNION { IF config[k].t = "obj" THEN KeysOf(config[k].kids) ELSE {}
                : k \in DOMAIN config }

\* no key of the tree is empty or contains a dot
PlainKeys(config) ==
    \A k \in KeysOf(config) : k # << >> /\ \A i \in 1..Len(k) : k[i] # "."

\* k1.k2. ... .kn
RECURSIVE Dotted(_)
Dotted(path) ==
    IF Len(path) = 1 THEN path[1]
    ELSE Dotted(SubSeq(path, 1, Len(path) - 1)) \o << "." >> \o path[Len(path)]

\* the upper case of k1_k2_..._kn
UpperName(path) == ToUpper(ReplaceAll(Dotted(path), ".", "_"))

\* the textual form of a scalar: the string, true/false, the decimal digits
TextOf(node) ==
    CASE node.t = "str"  -> node.s
      [] node.t = "bool" -> IF node.b THEN <<"t","r","u","e">> ELSE <<"f","a","l","s","e">>
      [] OTHER           -> Itoa(node.n)

\* C11: a JSON/YAML load writes every scalar leaf reached through the keys
\* k1, ..., kn under the upper case of k1_k2_..._kn with the leaf's textual
\* form (true/false, the decimal form of a number) as value, and writes no
\* name that is not that of a leaf.  (Read in the claim's favour: only trees
\* whose keys are non-empty and free of dots, whose names cannot clash.)
C11_NestedKeyNaming ==
    [][ \A p \in { JsonPath, YamlPath } :
            (New(p) /\ files[p].kind = "tree" /\ PlainKeys(files[p].tree)) =>
                LET leaves == LeavesOf(files[p].tree, << >>)
                IN  /\ \A lf \in leaves :
                           lf[2].t # "arr" =>
                               /\ UpperName(lf[1]) \in DOMAIN env'
                               /\ env'[UpperName(lf[1])] = TextOf(lf[2])
                    /\ DOMAIN env' = { UpperName(lf[1]) : lf \in leaves } ]_vars

(***************************************************************************)
(* C12: what a sequence flattens to                                        *)
(***************************************************************************)
\* s1,s2,...,sn: a separator between neighbours and nowhere else
RECURSIVE Separated(_)
Separated(strs) ==
    IF Len(strs) = 0 THEN << >>
    ELSE IF Len(strs) = 1 THEN strs[1]
    ELSE Separated(SubSeq(strs, 1, Len(strs) - 1)) \o << "," >> \o strs[Len(strs)]

\* the string forms of the elements of a sequence, in source order
ItemStrings(node) == [i \in 1..Len(node.items) |-> Sprintf(node.items[i])]

\* C12: a sequence at the qualified name Q flattens to exactly one entry,
\* for Q, whose value is its elements' string forms in source order joined
\* by "," (the empty string for an empty sequence); a mapping or sequence
\* that is an element is rendered into that entry and adds no entry of its
\* own: the flat mapping has the leaves' qualified names and no other.
\* (Trees whose keys are non-empty and dot-free, where Q names one leaf.)
C12_ArrayCanonical ==
    [][ \A p \in { JsonPath, YamlPath } :
            (New(p) /\ files[p].kind = "tree" /\ PlainKeys(files[p].tree)) =>
                LET leaves == LeavesOf(files[p].tree, << >>)
                    flat   == c'.loadedConfig
                IN  /\ \A lf \in leaves :
                           lf[2].t = "arr" =>
                               /\ Dotted(lf[1]) \in DOMAIN flat
                               /\ flat[Dotted(lf[1])] = Separated(ItemStrings(lf[2]))
                               /\ lf[2].items = << >> => flat[Dotted(lf[1])] = << >>
                    /\ DOMAIN flat = { Dotted(lf[1]) : lf \in leaves } ]_vars

\* a nested sequence under a.b, whose elements include a sequence and a
\* mapping, has been loaded into the one entry a.b
C12_Witness ==
    /\ last.op = "New"
    /\ c.loaded
    /\ DOMAIN c.loadedConfig = { <<"a", ".", "b">> }
    /\ c.loadedConfig[<<"a", ".", "b">>] =
           << "1", ",", "[", "x", " ", "t", "r", "u", "e", "]", ",",
              "m", "a", "p", "[", "b", ":", "y", "]" >>
    /\ files[JsonPath].kind = "tree"
    /\ PlainKeys(files[JsonPath].tree)

(***************************************************************************)
(* Env sources: the lines explored, and the handle loading them            *)
(***************************************************************************)
\* length of the lines explored
MaxLineLen == 5

LineChars == { "a", "=", "#", " ", "\"", "'" }

EnvLines == UNION { [1..n -> LineChars] : n \in 0..MaxLineLen }

\* what can stand before the line explored: nothing, a comment, an entry
Preambles == { << >>, << <<"#", "a">> >>, << <<"a", "=", "#">> >> }

\* an env file of one explored line after a preamble, an empty environment,
\* no handle yet
InitEnvLine ==
    /\ \E pre \in Preambles, line \in EnvLines :
           files = [p \in Paths |-> IF p = EnvPath THEN Text(Append(pre, line)) ELSE Absent]
    /\ env = EmptyMap
    /\ c = [made |-> FALSE, configFile |-> NoPath, loaded |-> FALSE,
            format |-> FormatEnv, loadedConfig |-> EmptyMap]
    /\ last = [op |-> "none", path |-> NoPath, err |-> ErrNone,
               wasLoaded |-> FALSE, file |-> Absent]
    /\ wrote = {}
    /\ prev = {}
    /\ writes = 0
    /\ hs = << >>
    /\ mark = << >>

NextEnvLine == New(EnvPath)

SpecEnvLine == InitEnvLine /\ [][NextEnvLine]_vars

\* s without its leading white space
RECURSIVE DropLeft(_)
DropLeft(s) == IF s = << >> \/ ~IsSpace(s[1]) THEN s ELSE DropLeft(Tail(s))

\* s without its trailing white space
RECURSIVE DropRight(_)
DropRight(s) ==
    IF s = << >> \/ ~IsSpace(s[Len(s)]) THEN s ELSE DropRight(SubSeq(s, 1, Len(s) - 1))

\* the trimmed text
Strip(s) == DropRight(DropLeft(s))

HasEq(s) == \E i \in 1..Len(s) : s[i] = "="

\* the position of the first "=" of a text that has one
FirstEq(s) == CHOOSE i \in 1..Len(s) : s[i] = "=" /\ \A j \in 1..(i - 1) : s[j] # "="

\* a line contributes an entry: trimmed, it is non-empty, does not begin
\* with "#" and contains "="
Contributes(line) ==
    LET t == Strip(line) IN t # << >> /\ t[1] # "#" /\ HasEq(t)

\* the trimmed text before, and after, the first "=" of a contributing line
KeyText(line)   == LET t == Strip(line) IN Strip(SubSeq(t, 1, FirstEq(t) - 1))
ValueText(line) == LET t == Strip(line) IN Strip(SubSeq(t, FirstEq(t) + 1, Len(t)))

\* v is at least two characters long and begins and ends with the same
\* kind of quote
QuotedPair(v) ==
    /\ Len(v) >= 2
    /\ \/ v[1] = "\"" /\ v[Len(v)] = "\""
       \/ v[1] = "'" /\ v[Len(v)] = "'"

\* the value stored for the trimmed value v
StoredFor(v) == IF QuotedPair(v) THEN [i \in 1..(Len(v) - 2) |-> v[i + 1]] ELSE v

\* the explored line of the env file
LastLine(file) == file.lines[Len(file.lines)]

\* C13: the value stored for a trimmed env value v is v without its first
\* and last character exactly when v has at least two characters and its
\* first and last are both '"' or both "'" (one pair at most is removed);
\* otherwise the value is stored unchanged.
C13_QuoteStripping ==
    [][ (New(EnvPath) /\ Contributes(LastLine(files[EnvPath]))) =>
            LET line == LastLine(files[EnvPath])
                key  == KeyText(line)
                v    == ValueText(line)
            IN  /\ key \in DOMAIN c'.loadedConfig
                /\ c'.loadedConfig[key] = StoredFor(v)
                /\ key # << >> => (key \in DOMAIN env' /\ env'[key] = StoredFor(v))
                /\ ~QuotedPair(v) => c'.loadedConfig[key] = v
                /\ QuotedPair(v) => Len(c'.loadedConfig[key]) = Len(v) - 2 ]_vars

\* the line a="'" has been loaded: the outer pair is gone, the inner quote
\* is kept
C13_Witness ==
    /\ last.op = "New"
    /\ files[EnvPath].lines = << << "a", "=", "\"", "'", "\"" >> >>
    /\ c.loadedConfig = (<<"a">> :> << "'" >>)
    /\ env = (<<"a">> :> << "'" >>)

\* the flat mapping the lines from i on leave, starting from acc
RECURSIVE EntriesOf(_, _, _)
EntriesOf(lines, i, acc) ==
    IF i > Len(lines) THEN acc
    ELSE IF Contributes(lines[i])
         THEN EntriesOf(lines, i + 1,
                        [k \in (DOMAIN acc) \cup { KeyText(lines[i]) } |->
                            IF k = KeyText(lines[i]) THEN StoredFor(ValueText(lines[i]))
                            ELSE acc[k]])
         ELSE EntriesOf(lines, i + 1, acc)

\* C15: a line of an env source contributes an entry exactly when, trimmed,
\* it is non-empty, does not begin with "#" and contains "="; the key is the
\* trimmed text before the first "=", the value the trimmed text after it
\* (later "=" stay in the value; quotes as in C13); a source of comments and
\* blank lines only yields the empty flat mapping.
C15_EnvLineParsing ==
    [][ New(EnvPath) =>
            LET lines == files[EnvPath].lines
            IN  /\ c'.loadedConfig = EntriesOf(lines, 1, EmptyMap)
                /\ (\A i \in 1..Len(lines) : ~Contributes(lines[i]))
                       => (c'.loadedConfig = EmptyMap /\ env' = env)
                /\ Contributes(LastLine(files[EnvPath])) =>
                       /\ KeyText(LastLine(files[EnvPath])) \in DOMAIN c'.loadedConfig
                       /\ ~QuotedPair(ValueText(LastLine(files[EnvPath]))) =>
                              c'.loadedConfig[KeyText(LastLine(files[EnvPath]))]
                                  = ValueText(LastLine(files[EnvPath])) ]_vars

\* the line a=a=a has been loaded: the second "=" is part of the value
C15_Witness ==
    /\ last.op = "New"
    /\ files[EnvPath].lines = << << "#", "a" >>, << "a", "=", "a", "=", "a" >> >>
    /\ c.loadedConfig = (<<"a">> :> << "a", "=", "a" >>)

(***************************************************************************)
(* Format detection: the paths explored, and the handle constructed on     *)
(* them.                                                                   *)
(***************************************************************************)
\* length of the stems of the paths explored
MaxStemLen == 2

StemChars == { "a", ".", "/" }

Stems == UNION { [1..n -> StemChars] : n \in 0..MaxStemLen }

\* what follows the stem: extensions in either case, near misses, none
Endings ==
    { << >>,
      <<".","j","s","o","n">>, <<".","J","S","O","N">>, <<".","J","s","o","n">>,
      <<".","j","s","o","N">>,
      <<".","y","m","l">>, <<".","Y","M","L">>, <<".","y","M","l">>,
      <<".","y","a","m","l">>, <<".","Y","A","M","L">>, <<".","Y","a","m","l">>,
      <<".","e","n","v">>, <<".","t","x","t">>,
      <<".","j","s","o">>, <<".","j","s","o","n","x">>, <<"j","s","o","n">>,
      <<"y","m","l">>, <<".","y","m">>, <<".","y","a","m">>, <<".","y",".","m","l">>,
      <<".","j","s","o","n",".","y","m","l">>, <<".","y","a","m","l",".","j","s","o","n">> }

\* what follows the ending: nothing, a separator, a dot, another element
Trailers == { << >>, <<"/">>, <<".">>, <<"/","a">> }

DetectPaths == { s \o e \o t : s \in Stems, e \in Endings, t \in Trailers }

\* no file exists, an empty environment, no handle yet
InitDetect ==
    /\ files = [p \in DetectPaths |-> Absent]
    /\ env = EmptyMap
    /\ c = [made |-> FALSE, configFile |-> NoPath, loaded |-> FALSE,
            format |-> FormatEnv, loadedConfig |-> EmptyMap]
    /\ last = [op |-> "none", path |-> NoPath, err |-> ErrNone,
               wasLoaded |-> FALSE, file |-> Absent]
    /\ wrote = {}
    /\ prev = {}
    /\ writes = 0
    /\ hs = << >>
    /\ mark = << >>

NextDetect == \E p \in DetectPaths : New(p)

SpecDetect == InitDetect /\ [][NextDetect]_vars

\* x and y are the same letter, in either case
SameLetter(x, y) ==
    \/ x = y
    \/ << x, y >> \in { <<"J","j">>, <<"S","s">>, <<"O","o">>, <<"N","n">>,
                        <<"Y","y">>, <<"M","m">>, <<"L","l">>, <<"A","a">> }

\* the path ends with the (lower-case) suffix, letters compared without case
EndsWithFold(path, suffix) ==
    /\ Len(path) >= Len(suffix)
    /\ \A i \in 1..Len(suffix) :
           SameLetter(path[Len(path) - Len(suffix) + i], suffix[i])

\* C14: detectFormat is total and case-insensitive: JSON when the extension,
\* lower-cased, is .json, YAML when it is .yml or .yaml, Env for every other
\* path, a path without extension included; it never fails.  (The step
\* that makes the handle is New on the path the handle then records.)
C14_DetectFormat ==
    /\ [](c.made => /\ c.format = detectFormat(c.configFile)
                     /\ c.format \in { FormatEnv, FormatJSON, FormatYAML })
    /\ [][ (~c.made /\ c'.made) =>
               LET p == c'.configFile
               IN  c'.format =
                       IF EndsWithFold(p, <<".","j","s","o","n">>) THEN FormatJSON
                       ELSE IF \/ EndsWithFold(p, <<".","y","m","l">>)
                               \/ EndsWithFold(p, <<".","y","a","m","l">>)
                            THEN FormatYAML
                       ELSE FormatEnv ]_vars

\* a handle has been constructed on a/.Json and detected JSON
C14_Witness ==
    /\ last.op = "New"
    /\ c.configFile = << "a", "/", ".", "J", "s", "o", "n" >>
    /\ c.format = FormatJSON

(***************************************************************************)
(* C16: the constructor loads eagerly and drops the load's error           *)
(***************************************************************************)
\* the handle New(p) builds before it calls Load
Fresh(p) ==
    [made |-> TRUE, configFile |-> p, loaded |-> FALSE,
     format |-> detectFormat(p), loadedConfig |-> EmptyMap]

\* C16: New(path) always returns a handle and never fails; the handle and
\* the environment after it are those of one Load() on an Unloaded handle
\* with format = detectFormat(path); when that load fails New raises no
\* error and the handle is Unloaded, and a later Load() on an Unloaded
\* handle whose source still cannot be loaded runs the load again and
\* returns its error.
C16_EagerConstructor ==
    [][ /\ \A p \in Paths :
              New(p) =>
                  /\ c'.made /\ c'.configFile = p /\ c'.format = detectFormat(p)
                  /\ last'.err = ErrNone
                  /\ \E r \in runLoad(Fresh(p), files, env) :
                         c' = r.c /\ env' = r.env
                  /\ c'.loaded = Loadable(files[p])
                  /\ Loadable(files[p]) =>
                         c'.loadedConfig \in FlatMappings(files[p], detectFormat(p))
        /\ (DoLoad /\ ~c.loaded /\ ~Loadable(files[c.configFile])) =>
               /\ last'.err # ErrNone
               /\ \E r \in runLoad(c, files, env) :
                      last'.err = r.err /\ c' = r.c /\ env' = r.env
               /\ ~c'.loaded ]_vars

\* New on a file that cannot be parsed left an Unloaded handle, and the
\* Load() that followed returned the parse error
C16_Witness ==
    /\ last.op = "Load"
    /\ last.err = ErrParse
    /\ ~last.wasLoaded
    /\ ~c.loaded
    /\ c.format = FormatJSON
    /\ writes = 1

(***************************************************************************)
(* C17: clashes of qualified names                                         *)
(***************************************************************************)
\* C17 as stated: for every value tree two distinct leaf paths never get the
\* same qualified name, so that no entry is overwritten and the flat mapping
\* has exactly one entry per scalar or sequence leaf.
C17_NoCollisions ==
    [][ \A p \in { JsonPath, YamlPath } :
            (New(p) /\ files[p].kind = "tree") =>
                Cardinality(DOMAIN c'.loadedConfig)
                    = Cardinality(LeavesOf(files[p].tree, << >>)) ]_vars

\* no key of the tree contains a dot, and no top-level key is empty
UnambiguousKeys(config) ==
    /\ \A k \in KeysOf(config) : \A i \in 1..Len(k) : k[i] # "."
    /\ << >> \notin DOMAIN config

\* the flat value of a leaf
FlatValue(node) ==
    IF node.t = "arr" THEN Separated(ItemStrings(node)) ELSE Sprintf(node)

\* C17 amended: for every value tree in which no key contains "." and no
\* top-level key is empty, two distinct leaf paths never get the same
\* qualified name: the flat mapping has exactly one entry per scalar or
\* sequence leaf, under the leaf's keys joined by ".", holding that leaf's
\* value.
C17_NoCollisionsUnambiguous ==
    [][ \A p \in { JsonPath, YamlPath } :
            (New(p) /\ files[p].kind = "tree" /\ UnambiguousKeys(files[p].tree)) =>
                LET leaves == LeavesOf(files[p].tree, << >>)
                    flat   == c'.loadedConfig
                IN  /\ Cardinality(DOMAIN flat) = Cardinality(leaves)
                    /\ \A l1 \in leaves : \A l2 \in leaves \ { l1 } :
                           Dotted(l1[1]) # Dotted(l2[1])
                    /\ \A lf \in leaves :
                           /\ Dotted(lf[1]) \in DOMAIN flat
                           /\ flat[Dotted(lf[1])] = FlatValue(lf[2]) ]_vars

\* a document with the leaves a.b = x and b.<empty> = y has been loaded into
\* two entries
C17_Witness ==
    /\ last.op = "New"
    /\ files[JsonPath].kind = "tree"
    /\ UnambiguousKeys(files[JsonPath].tree)
    /\ c.loadedConfig = (<<"a", ".", "b">> :> <<"x">>) @@ (<<"b", ".">> :> <<"y">>)

(***************************************************************************)
(* Two handles side by side.  os.Setenv and os.Unsetenv are atomic (the    *)
(* runtime serialises them), a load or a clear is a series of such calls,  *)
(* and nothing orders the calls of one handle against the other's.         *)
(***************************************************************************)
\* calls of Load / Reload per handle
MaxCalls == 2

Handles == { 1, 2 }

\* handle 1 reads the env file, handle 2 the JSON file
HandlePath(h) == IF h = 1 THEN EnvPath ELSE JsonPath

\* K=1 / J='2' in the env file and {"j": ["x","y"], "k": 5432} in the JSON
\* file: both define K and J
TwoFiles ==
    [p \in Paths |-> IF p = EnvPath THEN EnvPair
                     ELSE IF p = JsonPath THEN JsonList ELSE Absent]

\* the orders in which a range over a map can visit the elements of S
Orders(S) ==
    { f \in [1..Cardinality(S) -> S] :
        \A i \in 1..Cardinality(S) : \A j \in 1..Cardinality(S) : f[i] = f[j] => i = j }

\* the os.Setenv calls of the scanner loop of loadEnvFile, in line order
RECURSIVE setenvCalls(_, _)
setenvCalls(lines, i) ==
    IF i > Len(lines) THEN << >>
    ELSE LET line  == TrimSpace(lines[i])
             parts == SplitN2(line, "=")
         IN  IF line = << >> \/ HasPrefix(line, "#") \/ Len(parts) # 2
             THEN setenvCalls(lines, i + 1)
             ELSE << << "set", TrimSpace(parts[1]), Unquote(TrimSpace(parts[2])) >> >>
                  \o setenvCalls(lines, i + 1)

\* the os.Setenv calls of setEnvironmentVariables(config)
setCalls(config) == { << "set", envKey(k), config[k] >> : k \in DOMAIN config }

\* the os.Unsetenv calls of clearEnvironmentVariables(config)
unsetCalls(config) == { << "unset", envKey(k), << >> >> : k \in DOMAIN config }

\* Config.Load past its loaded test, up to the first os.Setenv: the handle
\* records it can continue from
beginLoad(hr, file) ==
    IF hr.format = FormatEnv
    THEN CASE file.kind = "absent" -> { [hr EXCEPT !.loaded = TRUE, !.pc = "idle"] }
           [] file.kind = "text" ->
                { [hr EXCEPT !.pc = "load",
                             !.todo = setenvCalls(file.lines, 1),
                             !.config = scanLines(file.lines, 1,
                                            [config |-> EmptyMap, env |-> EmptyMap]).config] }
           [] OTHER -> { [hr EXCEPT !.pc = "idle"] }
    ELSE UNION { IF r.err # ErrNone
                 THEN { [hr EXCEPT !.pc = "idle"] }
                 ELSE { [hr EXCEPT !.loadedConfig = r.config, !.pc = "load", !.todo = o]
                        : o \in Orders(setCalls(r.config)) }
               : r \in loadConfigFile(file) }

InitTwo ==
    /\ files = TwoFiles
    /\ env = EmptyMap
    /\ c = [made |-> FALSE, configFile |-> NoPath, loaded |-> FALSE,
            format |-> FormatEnv, loadedConfig |-> EmptyMap]
    /\ last = [op |-> "none", path |-> NoPath, err |-> ErrNone,
               wasLoaded |-> FALSE, file |-> Absent]
    /\ wrote = {}
    /\ prev = {}
    /\ writes = 0
    /\ hs = [h \in Handles |->
               [configFile |-> HandlePath(h), loaded |-> FALSE,
                format |-> detectFormat(HandlePath(h)), loadedConfig |-> EmptyMap,
                pc |-> "idle", todo |-> << >>, config |-> EmptyMap, calls |-> 0]]
    /\ mark = EmptyMap

\* the JSON file is rewritten to {"k": "1"}, which no longer defines j
Rewrite ==
    /\ files[JsonPath] = JsonList
    /\ files' = [files EXCEPT ![JsonPath] = JsonOne]
    /\ UNCHANGED << env, c, last, wrote, prev, writes, hs, mark >>

\* handle h enters Load()
LoadBegin(h) ==
    /\ hs[h].pc = "idle"
    /\ hs[h].calls < MaxCalls
    /\ IF hs[h].loaded
       THEN hs' = [hs EXCEPT ![h].calls = @ + 1]
       ELSE \E r \in beginLoad([hs[h] EXCEPT !.calls = @ + 1], files[hs[h].configFile]) :
                hs' = [hs EXCEPT ![h] = r]
    /\ UNCHANGED << files, env, c, last, wrote, prev, writes, mark >>

\* handle h enters Reload()
ReloadBegin(h) ==
    /\ hs[h].pc = "idle"
    /\ hs[h].calls < MaxCalls
    /\ IF Cardinality(DOMAIN hs[h].loadedConfig) > 0
       THEN \E o \in Orders(unsetCalls(hs[h].loadedConfig)) :
                hs' = [hs EXCEPT ![h] = [@ EXCEPT !.pc = "clear", !.todo = o,
                                                  !.calls = @ + 1]]
       ELSE \E r \in beginLoad([hs[h] EXCEPT !.loaded = FALSE, !.calls = @ + 1],
                               files[hs[h].configFile]) :
                hs' = [hs EXCEPT ![h] = r]
    /\ UNCHANGED << files, env, c, last, wrote, prev, writes, mark >>

\* handle h makes its next os.Setenv / os.Unsetenv call
StoreCall(h) ==
    /\ hs[h].pc \in { "clear", "load" }
    /\ hs[h].todo # << >>
    /\ LET call == Head(hs[h].todo)
       IN  /\ env' = IF call[1] = "set" THEN Setenv(env, call[2], call[3])
                     ELSE Without(env, { call[2] })
           /\ mark' = IF call[2] = << >> THEN mark
                      ELSE Put(mark, call[2],
                               [op |-> call[1], value |-> call[3], by |-> h])
    /\ hs' = [hs EXCEPT ![h].todo = Tail(@)]
    /\ UNCHANGED << files, c, last, wrote, prev, writes >>

\* handle h has made its calls: after the clear, Reload resets the handle
\* and loads; after the load, Load marks the handle loaded and returns
Finish(h) ==
    /\ hs[h].pc \in { "clear", "load" }
    /\ hs[h].todo = << >>
    /\ IF hs[h].pc = "clear"
       THEN \E r \in beginLoad([hs[h] EXCEPT !.loadedConfig = EmptyMap, !.loaded = FALSE],
                               files[hs[h].configFile]) :
                hs' = [hs EXCEPT ![h] = r]
       ELSE hs' = [hs EXCEPT ![h] =
                     [@ EXCEPT !.loadedConfig = IF hs[h].format = FormatEnv
                                                THEN hs[h].config ELSE hs[h].loadedConfig,
                               !.loaded = TRUE, !.pc = "idle"]]
    /\ UNCHANGED << files, env, c, last, wrote, prev, writes, mark >>

NextTwo ==
    \/ Rewrite
    \/ \E h \in Handles : LoadBegin(h)
    \/ \E h \in Handles : ReloadBegin(h)
    \/ \E h \in Handles : StoreCall(h)
    \/ \E h \in Handles : Finish(h)

SpecTwo == InitTwo /\ [][NextTwo]_vars

(***************************************************************************)
(* C18: no atomicity across handles                                        *)
(***************************************************************************)
\* C18: with the os.Setenv / os.Unsetenv calls of two handles interleaved,
\* every name is in the state its latest call left it in: set to the value
\* of the latest os.Setenv, or absent after a latest os.Unsetenv, whichever
\* handle made the call.  (That a state mixing both handles' mappings is
\* reached is the witness.)
C18_LastCallWins ==
    /\ DOMAIN env \subseteq DOMAIN mark
    /\ \A n \in DOMAIN mark :
           /\ mark[n].op = "set" => (n \in DOMAIN env /\ env[n] = mark[n].value)
           /\ mark[n].op = "unset" => n \notin DOMAIN env

\* both handles have returned, loaded, and the environment holds K from the
\* env file and J from the JSON file: neither handle's flat mapping
C18_Witness ==
    /\ \A h \in Handles : hs[h].pc = "idle" /\ hs[h].loaded
    /\ files = TwoFiles
    /\ env = (<<"K">> :> <<"1">>) @@ (<<"J">> :> <<"x", ",", "y">>)
    /\ mark[<<"K">>].by = 1
    /\ mark[<<"J">>].by = 2

\* both handles have returned, loaded; handle 1 records J, which the clear
\* of handle 2's reload has removed
C18_WitnessRemoved ==
    /\ \A h \in Handles : hs[h].pc = "idle" /\ hs[h].loaded
    /\ <<"J">> \in DOMAIN hs[1].loadedConfig
    /\ <<"J">> \notin DOMAIN env
    /\ mark[<<"J">>].op = "unset"
    /\ mark[<<"J">>].by = 2

====
